---- MODULE Spec2Model ----
(***************************************************************************)
(* A model of the backup workflow of Repo-Tools (src/backup_repos.py):     *)
(* main, setup_backup_directories, get_all_repositories,                   *)
(* get_backup_subdirectory, clone_repository, update_repository and        *)
(* backup_repositories, run against a local directory tree that persists   *)
(* from one invocation of the program to the next; and of the privacy      *)
(* manager (src/scripts/set_repos_private.py) as the privacy command of    *)
(* src/main.py runs it; of repository creation                             *)
(* (src/create_github_repo.py, src/create_repo.py); and of the unified     *)
(* command line (GitHubCLI.run of src/main.py).                            *)
(*                                                                         *)
(* Strings are sequences of string atoms, so that str.startswith,          *)
(* str.replace, str.strip and "text contains url" are computed.            *)
(***************************************************************************)
EXTENDS Integers, Sequences, FiniteSets, TLC

\* ------------------------------------------------------------------ bounds
MaxRepos == 2   \* longest repository list returned by the listing call
MaxRuns == 2    \* invocations of the program against the same local tree
MaxRerunRepos == 1   \* longest repository list where the program is run again
MaxUpdateRepos == 1  \* longest repository list where local histories vary
MaxInjectRepos == 1  \* longest repository list where clone urls vary in form
MaxOwnerRepos == 2   \* longest repository list where owners vary
MaxRaceRepos == 1    \* longest repository list where another process changes the tree

\* ------------------------------------------------------------- vocabulary
NameSeq == <<"a", "b", "c">>
Names == {NameSeq[k] : k \in 1..MaxRepos}   \* the k-th listed repository is named NameSeq[k]
Owners == {"me"}
Categories == {"public", "private", "forks"}
Root == "root"

NoToken == ""
Token == "ghp_tok"

GitHubPrefix == "https://github.com/"

Paths == Categories \X Names

\* Kinds of thing found at a repository path of the local tree.
\*   absent   nothing there
\*   emptydir an empty directory
\*   dir      a non-empty directory without a .git marker
\*   partial  a directory with a .git marker left by a killed clone
\*   repo     a complete working copy
Kinds == {"absent", "emptydir", "dir", "partial", "repo"}

NoUrl == <<>>
CloneTimeoutSeconds == 300    \* timeout of subprocess.run for git clone
UpdateTimeoutSeconds == 60    \* timeout of subprocess.run for git pull
NoProc == [op |-> "none", url |-> NoUrl, path |-> <<"public", "a">>, timeout |-> 0]

\* --------------------------------------------------------------- strings
\* str.startswith
StartsWith(s, atom) == Len(s) > 0 /\ s[1] = atom

\* str.replace(old, new): every occurrence of the atom old becomes new
RECURSIVE Replace(_, _, _)
Replace(s, old, new) ==
    IF s = <<>> THEN <<>>
    ELSE (IF Head(s) = old THEN new ELSE <<Head(s)>>) \o Replace(Tail(s), old, new)

Whitespace == {"\n", " "}

RECURSIVE LStrip(_)
LStrip(s) ==
    IF s # <<>> /\ Head(s) \in Whitespace THEN LStrip(Tail(s)) ELSE s

RECURSIVE RStrip(_)
RStrip(s) ==
    IF s # <<>> /\ s[Len(s)] \in Whitespace THEN RStrip(SubSeq(s, 1, Len(s) - 1)) ELSE s

\* str.strip
Strip(s) == RStrip(LStrip(s))

\* needle occurs in text as a contiguous run of atoms
Contains(text, needle) ==
    \E k \in 1..(Len(text) - Len(needle) + 1) :
        SubSeq(text, k, k + Len(needle) - 1) = needle

\* ----------------------------------------------------------- descriptors
\* One element of the list built by get_all_repositories.
RepoDesc(o, n, p, f) ==
    [name |-> n,
     full_name |-> <<o, "/", n>>,
     private |-> p,
     fork |-> f,
     clone_url |-> <<GitHubPrefix, o, "/", n, ".git">>]

Descriptors ==
    {RepoDesc(o, n, p, f) : o \in Owners, n \in Names, p \in BOOLEAN, f \in BOOLEAN}

\* The owners of the repositories that get_repos(type='all') lists: the user,
\* and organizations or other users whose repositories the user can access.
OwnerSeq == <<"me", "org", "team">>

\* Lists of at most MaxOwnerRepos non-fork repositories, the k-th owned by
\* OwnerSeq[k], of any name.
OwnerAccounts ==
    UNION {{[k \in 1..n |-> RepoDesc(OwnerSeq[k], x[k][1], x[k][2], FALSE)] :
                x \in [1..n -> Names \X BOOLEAN]} :
           n \in 0..MaxOwnerRepos}

\* Forms of clone url a host can hand out for owner o's repository n: the
\* https url on github.com, the scp-like and the ssh forms, another scheme,
\* another host.
UrlForms(o, n) ==
    {<<GitHubPrefix, o, "/", n, ".git">>,
     <<"git@github.com:", o, "/", n, ".git">>,
     <<"ssh://git@github.com/", o, "/", n, ".git">>,
     <<"http://github.com/", o, "/", n, ".git">>,
     <<"https://ghe.example.com/", o, "/", n, ".git">>}

\* Lists of at most MaxInjectRepos public repositories with any form of clone url.
UrlAccounts ==
    UNION {{l \in [1..n -> UNION {{[RepoDesc(o, m, FALSE, FALSE) EXCEPT !.clone_url = u] :
                                        u \in UrlForms(o, m)} : o \in Owners, m \in Names}] :
                \A k \in 1..n : l[k].name = NameSeq[k]} :
           n \in 0..MaxInjectRepos}

\* Lists the remote account can return: distinct full names, at most MaxRepos.
RECURSIVE ListsOfLen(_)
ListsOfLen(n) ==
    IF n = 0 THEN {<<>>}
    ELSE {Append(l, d) : l \in ListsOfLen(n - 1), d \in Descriptors}

DistinctFullNames(l) ==
    \A x, y \in 1..Len(l) : x # y => l[x].full_name # l[y].full_name

Accounts ==
    {l \in UNION {ListsOfLen(n) : n \in 0..MaxRepos} :
        DistinctFullNames(l) /\ \A k \in 1..Len(l) : l[k].name = NameSeq[k]}

\* ---------------------------------------------------------------- routing
\* The private-before-fork variant of the routing rule.
get_backup_subdirectory_private_first(repo) ==
    IF repo.private THEN "private"
    ELSE IF repo.fork THEN "forks"
    ELSE "public"

\* get_backup_subdirectory: the category directory under backup_path
get_backup_subdirectory(repo) ==
    IF repo.fork THEN "forks"
    ELSE IF repo.private THEN "private"
    ELSE "public"

\* repo_path = backup_dir / repo_name
repo_path(repo) == <<get_backup_subdirectory(repo), repo.name>>

\* str(repo_path)
PathStr(p) == <<Root, "/", p[1], "/", p[2]>>

\* repo_path.exists()
Exists(kind) == kind # "absent"

\* A test for a marker that no directory holds.
HasMarker_wrong_marker(kind) == kind \in {}

\* repo_path.exists() and (repo_path / ".git").exists()
HasMarker(kind) == kind \in {"partial", "repo"}

\* ------------------------------------------------------------------ state
VARIABLES
    envToken,    \* os.getenv('GITHUB_TOKEN')
    account,     \* what the remote host lists for the user (unchanged between runs)
    dirs,        \* which of the backup root and the category directories exist
    tree,        \* Paths -> Kinds: what is at each repository path
    origin,      \* Paths -> url recorded as remote.origin.url in the path's .git/config
    run,         \* number of the current invocation of the program
    dry_run,     \* args.dry_run of the current invocation
    pc,          \* position of main / backup_repositories
    exitCode,    \* process exit status once pc = "exited"
    repos,       \* the list returned by get_all_repositories
    i,           \* index of the repository the loop is at
    branch,      \* which operation the loop called for repository i
    successful,  \* counter of backup_repositories
    failed,      \* counter of backup_repositories
    updated,     \* counter of backup_repositories
    console,     \* lines printed on the console in this invocation
    summary,     \* the "Backup Results" table, once printed
    proc,        \* the external git process in flight
    cmds,        \* git commands started in this invocation
    calls,       \* per repository of this invocation: the loop's check and its call
    outcomes,    \* per repository of this invocation: how it ended
    cloned,      \* <<path, run>> of every git clone that exited 0
    dirsAtStart, \* dirs when the current invocation started
    treeAtStart, \* tree when the current invocation started
    head,        \* Paths -> the working copy's history relative to its remote's
    self_token,  \* the token the GitHubRepoBackup instance was built with
    preview,     \* the "Backup Summary" table, once printed
    timedOut     \* paths at which a git clone was killed on timeout, in any invocation

\* State of the privacy manager (src/scripts/set_repos_private.py), run by
\* the privacy command of src/main.py.
VARIABLES
    hosted,          \* the user's repositories on the remote host
    hostedAtStart,   \* hosted when the command started
    privacy_dry_run, \* dry_run as run_privacy_command passes it to run
    ppc,             \* position of run_privacy_command / run
    found_repos,     \* run's repos: indices into hosted of the zero-star public non-forks
    found_forks,     \* run's forks: indices into hosted of the zero-star public forks
    at,              \* position in the list of the loop that is running
    success_count,   \* counter of the loop that is running
    error_count,     \* counter of the loop that is running
    answers,         \* what the user answered to each confirmation prompt
    reports,         \* the counts printed at the end or at the interruption of a loop
    apicalls         \* mutating calls made on the host's API

Privacy == <<hosted, hostedAtStart, privacy_dry_run, ppc, found_repos, found_forks, at,
             success_count, error_count, answers, reports, apicalls>>

\* The privacy manager is not running.
PrivacyIdle ==
    /\ hosted = <<>>
    /\ hostedAtStart = <<>>
    /\ privacy_dry_run = TRUE
    /\ ppc = "idle"
    /\ found_repos = <<>>
    /\ found_forks = <<>>
    /\ at = 0
    /\ success_count = 0
    /\ error_count = 0
    /\ answers = <<>>
    /\ reports = <<>>
    /\ apicalls = <<>>

\* State of repository creation (create_github_repository of
\* src/create_github_repo.py, create_github_repo of src/create_repo.py).
VARIABLES
    remote,          \* Names -> what the user's account holds under the name on the host
    remoteAtCall,    \* remote when the current call started
    repo_name,       \* the repo_name argument
    create_private,  \* the private argument
    cpc,             \* position of create_github_repository
    create_call,     \* number of the current call
    lookup,          \* how user.get_repo(repo_name) ended in the current call
    creates,         \* the user.create_repo calls of the current call
    returned,        \* what the current call returned
    prev_returned    \* what the previous call returned

Creation == <<remote, remoteAtCall, repo_name, create_private, cpc, create_call, lookup,
              creates, returned, prev_returned>>

\* No repository is being created.
CreationIdle ==
    /\ remote = [n \in Names |-> "none"]
    /\ remoteAtCall = remote
    /\ repo_name = NameSeq[1]
    /\ create_private = FALSE
    /\ cpc = "idle"
    /\ create_call = 0
    /\ lookup = "none"
    /\ creates = <<>>
    /\ returned = "none"
    /\ prev_returned = "none"

\* State of the unified command line (GitHubCLI.run of src/main.py).
VARIABLES
    command,     \* the first word of the command line, "" when there is none
    topic,       \* the word after help, "" when there is none
    cli_pc,      \* position of GitHubCLI.run
    handler,     \* the command handler that was started
    shown,       \* what run itself displayed
    cli_exit     \* exit status of the process once cli_pc = "exited"

Cli == <<command, topic, cli_pc, handler, shown, cli_exit>>

\* The unified command line is not running.
CliIdle ==
    /\ command = ""
    /\ topic = ""
    /\ cli_pc = "idle"
    /\ handler = "none"
    /\ shown = "none"
    /\ cli_exit = 0

vars == <<envToken, account, dirs, tree, origin, run, dry_run, pc, exitCode, repos, i,
          branch, successful, failed, updated, console, summary, proc, cmds, calls,
          outcomes, cloned, dirsAtStart, treeAtStart, head, self_token, preview, timedOut, hosted,
          hostedAtStart, privacy_dry_run, ppc, found_repos, found_forks, at, success_count,
          error_count, answers, reports, apicalls, Creation, Cli>>

NoPreview == [printed |-> FALSE, public |-> 0, private |-> 0, forks |-> 0, total |-> 0]

NoSummary == [printed |-> FALSE, newly_cloned |-> 0, updated |-> 0, failed |-> 0, total |-> 0]

AllDirs == {Root} \cup Categories

\* The local tree before the first invocation: nothing at all, or a backup root
\* set up by an earlier use, with anything at the paths the listed repositories
\* are routed to (no other path is ever read or written).
InitialTrees(acct) ==
    {[p \in Paths |->
        IF \E k \in 1..Len(acct) : repo_path(acct[k]) = p
        THEN ks[CHOOSE k \in 1..Len(acct) : repo_path(acct[k]) = p]
        ELSE "absent"] :
     ks \in [1..Len(acct) -> {"absent", "emptydir", "dir", "repo"}]}

\* The local history of a working copy found by the first invocation: the
\* remote's history, or an earlier state of it ("behind"), or one with commits
\* of its own that the remote's lacks ("diverged").
Heads == {"none", "behind", "current", "diverged"}

InitialHeads(t) ==
    LET R == {p \in Paths : t[p] = "repo"}
    IN  {[p \in Paths |-> IF p \in R THEN f[p] ELSE "none"] : f \in [R -> Heads \ {"none"}]}

\* The backup workflow's state but the local histories, for the accounts in accts.
InitWith(accts) ==
    /\ envToken \in {NoToken, Token}
    /\ account \in accts
    /\ \/ dirs = {} /\ tree = [p \in Paths |-> "absent"]
       \/ dirs = AllDirs /\ tree \in InitialTrees(account)
    /\ origin = [p \in Paths |-> IF tree[p] = "repo" THEN <<GitHubPrefix, "me", "/", p[2], ".git">>
                                ELSE NoUrl]
    /\ run = 1
    /\ dry_run \in BOOLEAN
    /\ pc = "start"
    /\ exitCode = 0
    /\ repos = <<>>
    /\ i = 0
    /\ branch = "none"
    /\ successful = 0
    /\ failed = 0
    /\ updated = 0
    /\ console = <<>>
    /\ summary = NoSummary
    /\ proc = NoProc
    /\ cmds = <<>>
    /\ calls = <<>>
    /\ outcomes = <<>>
    /\ cloned = {}
    /\ dirsAtStart = dirs
    /\ treeAtStart = tree
    /\ timedOut = {}
    /\ preview = NoPreview
    /\ self_token = NoToken

\* Working copies left by an earlier use are behind their remotes.
Init ==
    /\ InitWith(Accounts)
    /\ head = [p \in Paths |-> IF tree[p] = "repo" THEN "behind" ELSE "none"]
    /\ PrivacyIdle
    /\ CreationIdle
    /\ CliIdle

\* ------------------------------------------------------- console messages
Line_TokenNotSet == <<"Error: GITHUB_TOKEN environment variable not set">>
Line_ApiError == <<"GitHub API Error">>
Line_DirsReady == <<"Backup directory ready: ", Root>>
Line_DirsError == <<"Error creating backup directories: ", "[Errno 13] Permission denied">>
Line_Cancelled == <<"Backup cancelled.">>
Line_BackupComplete == <<"Backup Complete!">>
Line_Skipping(repo) == <<"Skipping ", repo.name, " (already exists)">>
Line_WouldClone(repo) == <<"Would clone: ">> \o repo.full_name \o <<" -> ">> \o PathStr(repo_path(repo))
Line_WouldUpdate(repo) == <<"Would update: ", repo.name>>
Line_Cloned(repo) == <<"Cloned: ", repo.name>>
Line_FailedClone(repo, stderr) == <<"Failed to clone ", repo.name, ": ">> \o Strip(stderr)
Line_TimeoutClone(repo) == <<"Timeout cloning ", repo.name>>
Line_ErrorClone(repo, e) == <<"Error cloning ", repo.name, ": ">> \o e
Line_Updated(repo) == <<"Updated: ", repo.name>>
Line_CouldNotUpdate(repo, stderr) == <<"Could not update ", repo.name, ": ">> \o Strip(stderr)
Line_TimeoutUpdate(repo) == <<"Timeout updating ", repo.name>>
Line_ErrorUpdate(repo, e) == <<"Error updating ", repo.name, ": ">> \o e

\* --------------------------------------------------------- the git binary
\* What git writes on stderr when a clone of url into path exits non-zero.
CloneStderr(url, path, kind) ==
    IF kind \in {"dir", "partial", "repo"}
    THEN {<<"fatal: destination path '">> \o PathStr(path)
            \o <<"' already exists and is not an empty directory.", "\n">>}
    ELSE {<<"fatal: could not read from remote repository.", "\n">>,
          <<"fatal: unable to access '">> \o url \o <<"': Could not resolve host", "\n">>}

\* git's message when the local history has diverged from the remote's
NotFastForward == <<"fatal: Not possible to fast-forward, aborting.", "\n">>

\* git's message when the current branch has no upstream configured, as in a
\* directory that a killed clone left behind
NoTracking == <<"There is no tracking information for the current branch.", "\n">>

\* What git writes on stderr when pull --ff-only exits non-zero in a directory
\* of this kind whose recorded origin is url and whose history is h.
PullStderr(url, kind, h) ==
    {<<"fatal: unable to access '">> \o url \o <<"': Could not resolve host", "\n">>}
    \cup (IF kind = "partial" THEN {NoTracking}
          ELSE IF h = "diverged" THEN {NotFastForward}
          ELSE {})

\* A pull without --ff-only: git merges a diverged history.
PullCanSucceed_merge(kind, h) == kind = "repo"

\* Whether git pull --ff-only can exit 0: in a complete working copy whose
\* history the remote's history continues.
PullCanSucceed(kind, h) == kind = "repo" /\ h # "diverged"

\* str(e) of an exception raised by subprocess.run other than TimeoutExpired
SubprocessErrors == {<<"[Errno 2] No such file or directory: 'git'">>}

\* What a clone that is killed (on timeout or interrupt) may leave at a path:
\* what was there, or a directory whose .git is already written.
KilledCloneLeaves(kind) ==
    IF kind \in {"absent", "emptydir"} THEN {kind, "partial"} ELSE {kind}

\* ---------------------------------------------------------------- helpers
Say(line) == console' = Append(console, line)

Exit(code) == pc' = "exited" /\ exitCode' = code

\* The loop's check with the .git test dropped.
Decide_exists_only(kind) == IF Exists(kind) THEN "update" ELSE "clone"

\* The check of the loop: update when the path holds a working copy, else clone.
Decide(kind) == IF HasMarker(kind) THEN "update" ELSE "clone"

\* A skip of every existing directory, with or without .git.
SkipClone_any_directory(kind) == Exists(kind)

\* clone_repository's skip of an existing working copy
SkipClone(kind) == HasMarker(kind)

\* Insert the token into an https://github.com/ url.
\* A clone that passes every url as it is.
Inject_never(clone_url, token) == clone_url

Inject(clone_url, token) ==
    IF StartsWith(clone_url, GitHubPrefix)
    THEN Replace(clone_url, GitHubPrefix, <<"https://", token, "@github.com/">>)
    ELSE clone_url

\* How a started git command ends for subprocess.run.
Endings == {"exit0", "exit_nonzero", "timeout", "error"}

\* clone_repository's handlers with the generic one tried first.
clone_report_exception_first(repo, ending, text) ==
    IF ending = "exit0" THEN [line |-> Line_Cloned(repo), result |-> TRUE]
    ELSE IF ending = "exit_nonzero" THEN [line |-> Line_FailedClone(repo, text), result |-> FALSE]
    ELSE [line |-> Line_ErrorClone(repo, text), result |-> FALSE]

\* clone_repository after subprocess.run: what it prints and returns. text is
\* result.stderr for a non-zero exit and str(e) for an exception.
clone_report(repo, ending, text) ==
    IF ending = "exit0" THEN [line |-> Line_Cloned(repo), result |-> TRUE]
    ELSE IF ending = "exit_nonzero" THEN [line |-> Line_FailedClone(repo, text), result |-> FALSE]
    ELSE IF ending = "timeout" THEN [line |-> Line_TimeoutClone(repo), result |-> FALSE]
    ELSE [line |-> Line_ErrorClone(repo, text), result |-> FALSE]

\* update_repository after subprocess.run: what it prints and returns.
update_report(repo, ending, text) ==
    IF ending = "exit0" THEN [line |-> Line_Updated(repo), result |-> TRUE]
    ELSE IF ending = "exit_nonzero" THEN [line |-> Line_CouldNotUpdate(repo, text), result |-> FALSE]
    ELSE IF ending = "timeout" THEN [line |-> Line_TimeoutUpdate(repo), result |-> FALSE]
    ELSE [line |-> Line_ErrorUpdate(repo, text), result |-> FALSE]

\* A loop that adds every success to the "updated" counter.
Count_success_as_updated(rep, ending) ==
    /\ successful' = successful
    /\ updated' = IF rep.result THEN updated + 1 ELSE updated
    /\ failed' = IF ~rep.result THEN failed + 1 ELSE failed
    /\ outcomes' = Append(outcomes, [idx |-> i, op |-> branch, ending |-> ending,
                                     result |-> rep.result, line |-> rep.line])
    /\ console' = IF rep.line = <<>> THEN console ELSE Append(console, rep.line)
    /\ i' = i + 1
    /\ branch' = "none"
    /\ pc' = "loop"

\* A loop that stays at a repository whose operation failed.
Count_retry_on_failure(rep, ending) ==
    /\ successful' = IF branch = "clone" /\ rep.result THEN successful + 1 ELSE successful
    /\ updated' = IF branch = "update" /\ rep.result THEN updated + 1 ELSE updated
    /\ failed' = IF ~rep.result THEN failed + 1 ELSE failed
    /\ outcomes' = Append(outcomes, [idx |-> i, op |-> branch, ending |-> ending,
                                     result |-> rep.result, line |-> rep.line])
    /\ console' = IF rep.line = <<>> THEN console ELSE Append(console, rep.line)
    /\ i' = IF rep.result THEN i + 1 ELSE i
    /\ branch' = "none"
    /\ pc' = "loop"

\* A loop that counts successes only.
Count_failure_uncounted(rep, ending) ==
    /\ successful' = IF branch = "clone" /\ rep.result THEN successful + 1 ELSE successful
    /\ updated' = IF branch = "update" /\ rep.result THEN updated + 1 ELSE updated
    /\ failed' = failed
    /\ outcomes' = Append(outcomes, [idx |-> i, op |-> branch, ending |-> ending,
                                     result |-> rep.result, line |-> rep.line])
    /\ console' = IF rep.line = <<>> THEN console ELSE Append(console, rep.line)
    /\ i' = i + 1
    /\ branch' = "none"
    /\ pc' = "loop"

\* A loop that a timeout ends.
Count_timeout_ends_run(rep, ending) ==
    /\ successful' = IF branch = "clone" /\ rep.result THEN successful + 1 ELSE successful
    /\ updated' = IF branch = "update" /\ rep.result THEN updated + 1 ELSE updated
    /\ failed' = IF ~rep.result THEN failed + 1 ELSE failed
    /\ outcomes' = Append(outcomes, [idx |-> i, op |-> branch, ending |-> ending,
                                     result |-> rep.result, line |-> rep.line])
    /\ console' = IF rep.line = <<>> THEN console ELSE Append(console, rep.line)
    /\ i' = i + 1
    /\ branch' = "none"
    /\ pc' = IF ending = "timeout" THEN "exited" ELSE "loop"

\* A loop that lets the failure of one repository end the run.
Count_stop_on_failure(rep, ending) ==
    /\ successful' = IF branch = "clone" /\ rep.result THEN successful + 1 ELSE successful
    /\ updated' = IF branch = "update" /\ rep.result THEN updated + 1 ELSE updated
    /\ failed' = IF ~rep.result THEN failed + 1 ELSE failed
    /\ outcomes' = Append(outcomes, [idx |-> i, op |-> branch, ending |-> ending,
                                     result |-> rep.result, line |-> rep.line])
    /\ console' = IF rep.line = <<>> THEN console ELSE Append(console, rep.line)
    /\ i' = i + 1
    /\ branch' = "none"
    /\ pc' = IF rep.result THEN "loop" ELSE "exited"

\* The called operation prints rep.line and returns rep.result; the loop counts
\* the result and advances to the next repository.
Count(rep, ending) ==
    /\ successful' = IF branch = "clone" /\ rep.result THEN successful + 1 ELSE successful
    /\ updated' = IF branch = "update" /\ rep.result THEN updated + 1 ELSE updated
    /\ failed' = IF ~rep.result THEN failed + 1 ELSE failed
    /\ outcomes' = Append(outcomes, [idx |-> i, op |-> branch, ending |-> ending,
                                     result |-> rep.result, line |-> rep.line])
    /\ console' = IF rep.line = <<>> THEN console ELSE Append(console, rep.line)
    /\ i' = i + 1
    /\ branch' = "none"
    /\ pc' = "loop"

Counters == <<successful, updated, failed, outcomes, i, branch>>
Disk == <<dirs, tree, origin, head>>
World == <<envToken, account, run, dry_run, cloned, dirsAtStart, treeAtStart, timedOut,
           Privacy, Creation, Cli>>

\* ------------------------------------------------------------------- main
\* A main that builds the manager with a token of its own.
ManagerToken_other(env) == "ghp_other"

\* The token main hands to GitHubRepoBackup: the one it read from the environment.
ManagerToken(env) == env

\* The three lists display_backup_summary splits the repositories into.
InPublic(r) == ~r.private /\ ~r.fork

\* A list of the private repositories that keeps the forks among them.
InPrivate_with_forks(r) == r.private

InPrivate(r) == r.private /\ ~r.fork

InForks(r) == r.fork

\* display_backup_summary on a list that is not empty: the rows of its table
display_backup_summary(rs) ==
    [printed |-> TRUE,
     public |-> Cardinality({k \in 1..Len(rs) : InPublic(rs[k])}),
     private |-> Cardinality({k \in 1..Len(rs) : InPrivate(rs[k])}),
     forks |-> Cardinality({k \in 1..Len(rs) : InForks(rs[k])}),
     total |-> Len(rs)]

\* main: the token check and validate_token
MainStart ==
    /\ pc = "start"
    /\ \/ /\ envToken = NoToken
          /\ Say(Line_TokenNotSet)
          /\ Exit(1)
       \/ /\ envToken # NoToken
          /\ \E valid \in BOOLEAN :
                IF valid
                THEN pc' = "setup" /\ UNCHANGED <<console, exitCode>>
                ELSE Say(Line_ApiError) /\ Exit(1)
    /\ UNCHANGED <<Disk, World, Counters, repos, summary, proc, cmds, calls>>
    /\ self_token' = IF envToken # NoToken THEN ManagerToken(envToken) ELSE self_token
    /\ UNCHANGED preview

\* A main that goes on when setup_backup_directories returns False.
setup_backup_directories_ignore_failure ==
    /\ pc = "setup"
    /\ \/ /\ dirs' = AllDirs
          /\ Say(Line_DirsReady)
       \/ /\ dirs # AllDirs
          /\ dirs' \in {dirs, dirs \cup {Root}}
          /\ Say(Line_DirsError)
    /\ pc' = "list"
    /\ UNCHANGED <<tree, origin, head, World, Counters, exitCode, repos, summary, proc,
                   cmds, calls>>
    /\ UNCHANGED self_token
    /\ UNCHANGED preview

\* setup_backup_directories, and main's exit when it fails
setup_backup_directories ==
    /\ pc = "setup"
    /\ \/ /\ dirs' = AllDirs
          /\ Say(Line_DirsReady)
          /\ pc' = "list"
          /\ UNCHANGED exitCode
       \/ /\ dirs # AllDirs
          /\ dirs' \in {dirs, dirs \cup {Root}}
          /\ Say(Line_DirsError)
          /\ Exit(1)
    /\ UNCHANGED <<tree, origin, head, World, Counters, repos, summary, proc, cmds, calls>>
    /\ UNCHANGED self_token
    /\ UNCHANGED preview

\* A listing that reverses the order received.
Listing_reversed(acct) == [k \in 1..Len(acct) |-> acct[Len(acct) + 1 - k]]

\* The list get_all_repositories builds from what the host returns: one
\* descriptor per repository, in the order received.
Listing(acct) == [k \in 1..Len(acct) |-> acct[k]]

\* get_all_repositories, then main's confirmation and the entry of
\* backup_repositories
ListAndConfirm ==
    /\ pc = "list"
    /\ \E listed \in {Listing(account), <<>>} :
        /\ repos' = listed
        /\ IF listed = <<>>
           THEN /\ Exit(1)
                /\ IF account # <<>> THEN Say(Line_ApiError) ELSE UNCHANGED console
                /\ UNCHANGED Counters
           ELSE \E proceed \in BOOLEAN :
                IF ~dry_run /\ ~proceed
                THEN Say(Line_Cancelled) /\ Exit(0) /\ UNCHANGED Counters
                ELSE /\ pc' = "loop"
                     /\ i' = 1
                     /\ successful' = 0
                     /\ failed' = 0
                     /\ updated' = 0
                     /\ UNCHANGED <<console, exitCode, outcomes, branch>>
    /\ UNCHANGED <<Disk, World, summary, proc, cmds, calls>>
    /\ UNCHANGED self_token
    /\ preview' = IF repos' # <<>> THEN display_backup_summary(repos') ELSE preview

\* ---------------------------------------------------- backup_repositories
\* The loop's existence check and its choice of operation.
LoopCheck ==
    /\ pc = "loop"
    /\ i <= Len(repos)
    /\ LET path == repo_path(repos[i])
           op == Decide(tree[path])
       IN  /\ branch' = op
           /\ calls' = Append(calls, [idx |-> i, path |-> path, kind |-> tree[path],
                                      head |-> head[path], origin |-> origin[path],
                                      op |-> op])
    /\ pc' = "called"
    /\ UNCHANGED <<Disk, World, successful, updated, failed, outcomes, i, exitCode,
                   repos, console, summary, proc, cmds>>
    /\ UNCHANGED self_token
    /\ UNCHANGED preview

\* An end of run that signals failed repositories in the exit status.
Finish_exit_on_failure ==
    /\ pc = "loop"
    /\ i > Len(repos)
    /\ Say(Line_BackupComplete)
    /\ summary' = [printed |-> TRUE, newly_cloned |-> successful, updated |-> updated,
                   failed |-> failed, total |-> Len(repos)]
    /\ Exit(IF failed > 0 THEN 1 ELSE 0)
    /\ UNCHANGED <<Disk, World, Counters, repos, proc, cmds, calls>>
    /\ UNCHANGED self_token
    /\ UNCHANGED preview

\* After the loop: the results table.
Finish ==
    /\ pc = "loop"
    /\ i > Len(repos)
    /\ Say(Line_BackupComplete)
    /\ summary' = [printed |-> TRUE, newly_cloned |-> successful, updated |-> updated,
                   failed |-> failed, total |-> Len(repos)]
    /\ Exit(0)
    /\ UNCHANGED <<Disk, World, Counters, repos, proc, cmds, calls>>
    /\ UNCHANGED self_token
    /\ UNCHANGED preview

\* ------------------------------------------------------- clone_repository
\* clone_repository up to the start of git clone: the skip of an existing
\* working copy, the dry-run report, the url with the token
clone_repository ==
    /\ pc = "called"
    /\ branch = "clone"
    /\ LET repo == repos[i]
           path == repo_path(repo)
           url == Inject(repo.clone_url, envToken)
       IN  IF SkipClone(tree[path])
           THEN /\ Count([line |-> Line_Skipping(repo), result |-> TRUE], "skip")
                /\ UNCHANGED <<proc, cmds>>
           ELSE IF dry_run
           THEN /\ Count([line |-> Line_WouldClone(repo), result |-> TRUE], "dry")
                /\ UNCHANGED <<proc, cmds>>
           ELSE /\ proc' = [op |-> "clone", url |-> url, path |-> path,
                            timeout |-> CloneTimeoutSeconds]
                /\ cmds' = Append(cmds, [idx |-> i, op |-> "clone", url |-> url, path |-> path])
                /\ pc' = "running"
                /\ UNCHANGED <<console, Counters>>
    /\ UNCHANGED <<Disk, World, exitCode, repos, summary, calls>>
    /\ UNCHANGED self_token
    /\ UNCHANGED preview

\* git clone exits 0: the working copy is written, its origin is the url given
CloneExitZero ==
    /\ pc = "running"
    /\ proc.op = "clone"
    /\ tree[proc.path] \in {"absent", "emptydir"}
    /\ tree' = [tree EXCEPT ![proc.path] = "repo"]
    /\ origin' = [origin EXCEPT ![proc.path] = proc.url]
    /\ head' = [head EXCEPT ![proc.path] = "current"]
    /\ cloned' = cloned \cup {<<proc.path, run>>}
    /\ Count(clone_report(repos[i], "exit0", <<>>), "exit0")
    /\ proc' = NoProc
    /\ UNCHANGED <<dirs, envToken, account, run, dry_run, dirsAtStart, treeAtStart,
                   timedOut, Privacy, Creation, Cli, exitCode, repos, summary, cmds, calls>>
    /\ UNCHANGED self_token
    /\ UNCHANGED preview

\* git clone exits non-zero: git removes what it created
CloneExitNonZero ==
    /\ pc = "running"
    /\ proc.op = "clone"
    /\ \E stderr \in CloneStderr(proc.url, proc.path, tree[proc.path]) :
            Count(clone_report(repos[i], "exit_nonzero", stderr), "exit_nonzero")
    /\ proc' = NoProc
    /\ UNCHANGED <<Disk, World, exitCode, repos, summary, cmds, calls>>
    /\ UNCHANGED self_token
    /\ UNCHANGED preview

\* subprocess.run raises TimeoutExpired after killing git clone
CloneTimeout ==
    /\ pc = "running"
    /\ proc.op = "clone"
    /\ \E left \in KilledCloneLeaves(tree[proc.path]) :
        /\ tree' = [tree EXCEPT ![proc.path] = left]
        /\ origin' = IF left # tree[proc.path]
                     THEN [origin EXCEPT ![proc.path] = proc.url]
                     ELSE origin
    /\ timedOut' = timedOut \cup {proc.path}
    /\ Count(clone_report(repos[i], "timeout", <<"Command timed out">>), "timeout")
    /\ proc' = NoProc
    /\ UNCHANGED <<dirs, head, envToken, account, run, dry_run, cloned, dirsAtStart,
                   treeAtStart, Privacy, Creation, Cli, exitCode, repos, summary, cmds, calls>>
    /\ UNCHANGED self_token
    /\ UNCHANGED preview

\* subprocess.run raises another exception: git did not run
CloneException ==
    /\ pc = "running"
    /\ proc.op = "clone"
    /\ \E e \in SubprocessErrors : Count(clone_report(repos[i], "error", e), "error")
    /\ proc' = NoProc
    /\ UNCHANGED <<Disk, World, exitCode, repos, summary, cmds, calls>>
    /\ UNCHANGED self_token
    /\ UNCHANGED preview

\* ------------------------------------------------------ update_repository
\* update_repository up to the start of git pull
update_repository ==
    /\ pc = "called"
    /\ branch = "update"
    /\ LET repo == repos[i]
           path == repo_path(repo)
       IN  IF ~HasMarker(tree[path])
           THEN /\ Count([line |-> <<>>, result |-> FALSE], "not_a_repo")
                /\ UNCHANGED <<proc, cmds>>
           ELSE IF dry_run
           THEN /\ Count([line |-> Line_WouldUpdate(repo), result |-> TRUE], "dry")
                /\ UNCHANGED <<proc, cmds>>
           ELSE /\ proc' = [op |-> "pull", url |-> NoUrl, path |-> path,
                            timeout |-> UpdateTimeoutSeconds]
                /\ cmds' = Append(cmds, [idx |-> i, op |-> "pull", url |-> NoUrl, path |-> path])
                /\ pc' = "running"
                /\ UNCHANGED <<console, Counters>>
    /\ UNCHANGED <<Disk, World, exitCode, repos, summary, calls>>
    /\ UNCHANGED self_token
    /\ UNCHANGED preview

\* git pull --ff-only exits 0 in a complete working copy
PullExitZero ==
    /\ pc = "running"
    /\ proc.op = "pull"
    /\ PullCanSucceed(tree[proc.path], head[proc.path])
    /\ head' = [head EXCEPT ![proc.path] = "current"]
    /\ Count(update_report(repos[i], "exit0", <<>>), "exit0")
    /\ proc' = NoProc
    /\ UNCHANGED <<dirs, tree, origin, World, exitCode, repos, summary, cmds, calls>>
    /\ UNCHANGED self_token
    /\ UNCHANGED preview

\* git pull --ff-only exits non-zero: nothing is merged
PullExitNonZero ==
    /\ pc = "running"
    /\ proc.op = "pull"
    /\ \E stderr \in PullStderr(origin[proc.path], tree[proc.path], head[proc.path]) :
            Count(update_report(repos[i], "exit_nonzero", stderr), "exit_nonzero")
    /\ proc' = NoProc
    /\ UNCHANGED <<Disk, World, exitCode, repos, summary, cmds, calls>>
    /\ UNCHANGED self_token
    /\ UNCHANGED preview

\* subprocess.run raises TimeoutExpired after killing git pull
PullTimeout ==
    /\ pc = "running"
    /\ proc.op = "pull"
    /\ Count(update_report(repos[i], "timeout", <<"Command timed out">>), "timeout")
    /\ proc' = NoProc
    /\ UNCHANGED <<Disk, World, exitCode, repos, summary, cmds, calls>>
    /\ UNCHANGED self_token
    /\ UNCHANGED preview

\* subprocess.run raises another exception: git did not run
PullException ==
    /\ pc = "running"
    /\ proc.op = "pull"
    /\ \E e \in SubprocessErrors : Count(update_report(repos[i], "error", e), "error")
    /\ proc' = NoProc
    /\ UNCHANGED <<Disk, World, exitCode, repos, summary, cmds, calls>>
    /\ UNCHANGED self_token
    /\ UNCHANGED preview

\* ------------------------------------------------------------ environment
\* KeyboardInterrupt during backup_repositories: no handler catches it (the
\* except clauses name Exception), subprocess.run kills the git in flight, and
\* the process ends with the traceback.
Interrupt ==
    /\ pc \in {"loop", "running"}
    /\ IF pc = "running" /\ proc.op = "clone"
       THEN \E left \in KilledCloneLeaves(tree[proc.path]) :
                /\ tree' = [tree EXCEPT ![proc.path] = left]
                /\ origin' = IF left # tree[proc.path]
                             THEN [origin EXCEPT ![proc.path] = proc.url]
                             ELSE origin
       ELSE UNCHANGED <<tree, origin>>
    /\ proc' = NoProc
    /\ Exit(130)
    /\ UNCHANGED <<dirs, head, World, Counters, repos, console, summary, cmds, calls>>
    /\ UNCHANGED self_token
    /\ UNCHANGED preview

\* The user runs the program again on the same local tree.
Rerun ==
    /\ pc = "exited"
    /\ run < MaxRuns
    /\ run' = run + 1
    /\ dry_run' \in BOOLEAN
    /\ pc' = "start"
    /\ exitCode' = 0
    /\ repos' = <<>>
    /\ i' = 0
    /\ branch' = "none"
    /\ successful' = 0
    /\ failed' = 0
    /\ updated' = 0
    /\ console' = <<>>
    /\ summary' = NoSummary
    /\ proc' = NoProc
    /\ cmds' = <<>>
    /\ calls' = <<>>
    /\ outcomes' = <<>>
    /\ dirsAtStart' = dirs
    /\ treeAtStart' = tree
    /\ UNCHANGED <<Disk, envToken, account, cloned, timedOut, Privacy, Creation, Cli>>
    /\ self_token' = NoToken
    /\ preview' = NoPreview

\* One invocation of the program.
Next ==
    \/ MainStart
    \/ setup_backup_directories
    \/ ListAndConfirm
    \/ LoopCheck
    \/ Finish
    \/ clone_repository
    \/ CloneExitZero
    \/ CloneExitNonZero
    \/ CloneTimeout
    \/ CloneException
    \/ update_repository
    \/ PullExitZero
    \/ PullExitNonZero
    \/ PullTimeout
    \/ PullException
    \/ Interrupt

Spec == Init /\ [][Next]_vars

\* Invocations one after the other on the same local tree, for an account of
\* at most MaxRerunRepos repositories.
InitRerun == Init /\ Len(account) <= MaxRerunRepos /\ envToken = Token

NextRerun == Next \/ Rerun

SpecRerun == InitRerun /\ [][NextRerun]_vars

\* One invocation on working copies with any history, for an account of at
\* most MaxUpdateRepos repositories.
InitUpdate ==
    /\ InitWith(Accounts)
    /\ Len(account) <= MaxUpdateRepos
    /\ envToken = Token
    /\ head \in InitialHeads(tree)
    /\ PrivacyIdle
    /\ CreationIdle
    /\ CliIdle

SpecUpdate == InitUpdate /\ [][Next]_vars

\* One invocation on an account whose clone urls have any form.
InitInject ==
    /\ InitWith(UrlAccounts)
    /\ envToken = Token
    /\ head = [p \in Paths |-> IF tree[p] = "repo" THEN "behind" ELSE "none"]
    /\ PrivacyIdle
    /\ CreationIdle
    /\ CliIdle

SpecInject == InitInject /\ [][Next]_vars

\* One invocation on a backup root that is set up and whose repository paths
\* are all free or all hold working copies.
InitUniform ==
    /\ Init
    /\ envToken = Token
    /\ dirs = AllDirs
    /\ \E kind \in {"absent", "repo"} :
            \A k \in 1..Len(account) : tree[repo_path(account[k])] = kind

SpecUniform == InitUniform /\ [][Next]_vars

\* One invocation, on a backup root not yet created, for an account that
\* lists repositories of several owners.
InitOwners ==
    /\ InitWith(OwnerAccounts)
    /\ envToken = Token
    /\ dirs = {}
    /\ head = [p \in Paths |-> "none"]
    /\ PrivacyIdle
    /\ CreationIdle
    /\ CliIdle

SpecOwners == InitOwners /\ [][Next]_vars

\* Another process on the machine, between the loop's check of a path and the
\* check inside the operation the loop called: it puts a working copy of the
\* repository at the path, or removes what is there.
OtherProcess ==
    /\ pc = "called"
    /\ LET path == repo_path(repos[i])
       IN  \/ /\ tree[path] # "repo"
              /\ tree' = [tree EXCEPT ![path] = "repo"]
              /\ origin' = [origin EXCEPT ![path] = repos[i].clone_url]
              /\ head' = [head EXCEPT ![path] = "current"]
           \/ /\ tree[path] # "absent"
              /\ tree' = [tree EXCEPT ![path] = "absent"]
              /\ origin' = [origin EXCEPT ![path] = NoUrl]
              /\ head' = [head EXCEPT ![path] = "none"]
    /\ UNCHANGED <<dirs, World, Counters, pc, exitCode, repos, console, summary, proc, cmds,
                   calls, self_token, preview>>

\* One invocation while another process works in the backup root, for an
\* account of at most MaxRaceRepos repositories.
InitRace == Init /\ Len(account) <= MaxRaceRepos /\ envToken = Token

NextRace == Next \/ OtherProcess

SpecRace == InitRace /\ [][NextRace]_vars

\* One invocation that no KeyboardInterrupt cuts short.
NextUninterrupted ==
    \/ MainStart
    \/ setup_backup_directories
    \/ ListAndConfirm
    \/ LoopCheck
    \/ Finish
    \/ clone_repository
    \/ CloneExitZero
    \/ CloneExitNonZero
    \/ CloneTimeout
    \/ CloneException
    \/ update_repository
    \/ PullExitZero
    \/ PullExitNonZero
    \/ PullTimeout
    \/ PullException

\* The program keeps running while it has a step to take, and subprocess.run
\* returns or raises: git exits, or is killed when the timeout expires.
SpecTerminate == InitUniform /\ [][NextUninterrupted]_vars /\ WF_vars(NextUninterrupted)

\* ------------------------------------------------------- privacy manager
MaxPrivacyRepos == 2   \* most repositories the host lists for the privacy manager

StarCounts == {0, 1}   \* repo.stargazers_count: none, or some
Stamps == {1, 2}       \* repo.updated_at

HostedRepo(n, p, f, s, u) ==
    [name |-> n, private |-> p, fork |-> f, stars |-> s, updated |-> u, deleted |-> FALSE]

\* What user.get_repos() can yield: at most MaxPrivacyRepos repositories.
HostedAccounts ==
    UNION {{[k \in 1..n |-> HostedRepo(NameSeq[k], x[k][1], x[k][2], x[k][3], x[k][4])] :
                x \in [1..n -> BOOLEAN \X BOOLEAN \X StarCounts \X Stamps]} :
           n \in 0..MaxPrivacyRepos}

\* list.sort(key=updated, reverse=True) on a list l of indices into h: by
\* updated, latest first, equal keys in their order in l.
RECURSIVE SortByUpdated(_, _)
SortByUpdated(l, h) ==
    IF l = <<>> THEN <<>>
    ELSE LET s == SortByUpdated(SubSeq(l, 1, Len(l) - 1), h)
             x == l[Len(l)]
             c == Cardinality({k \in 1..Len(s) : h[s[k]].updated >= h[x].updated})
         IN  SubSeq(s, 1, c) \o <<x>> \o SubSeq(s, c + 1, Len(s))

\* The scan of find_zero_star_public_repos: the public repositories without
\* stars that are forks (isFork) or are not, in the order listed.
Candidates(h, isFork) ==
    SelectSeq([k \in 1..Len(h) |-> k],
              LAMBDA k : ~h[k].private /\ h[k].stars = 0 /\ h[k].fork = isFork)

\* How a mutating API call ends.
ApiResults == {"ok", "GithubException", "Exception"}

Backup == <<envToken, account, dirs, tree, origin, head, run, dry_run, pc, exitCode, repos, i,
            branch, successful, failed, updated, console, summary, proc, cmds, calls,
            outcomes, cloned, dirsAtStart, treeAtStart, self_token, preview, timedOut>>

Loop == <<at, success_count, error_count>>

\* run_privacy_command: the manager is built, the token validated, dry_run set
run_privacy_command ==
    /\ ppc = "start"
    /\ \E valid \in BOOLEAN : ppc' = IF valid THEN "find" ELSE "exited"
    /\ UNCHANGED <<Backup, Creation, Cli, hosted, hostedAtStart, privacy_dry_run, found_repos, found_forks,
                   Loop, answers, reports, apicalls>>

\* find_zero_star_public_repos, as run calls it
find_zero_star_public_repos ==
    /\ ppc = "find"
    /\ \E ok \in BOOLEAN :
        /\ found_repos' = IF ok THEN SortByUpdated(Candidates(hosted, FALSE), hosted) ELSE <<>>
        /\ found_forks' = IF ok THEN SortByUpdated(Candidates(hosted, TRUE), hosted) ELSE <<>>
    /\ ppc' = "make"
    /\ UNCHANGED <<Backup, Creation, Cli, hosted, hostedAtStart, privacy_dry_run, Loop, answers, reports,
                   apicalls>>

\* The user's answer to a confirmation prompt, and the start of the loop
\* after a yes.
Confirm(prompt, loop, after) ==
    \E yes \in BOOLEAN :
        /\ answers' = Append(answers, [prompt |-> prompt, yes |-> yes])
        /\ IF yes
           THEN ppc' = loop /\ at' = 1 /\ success_count' = 0 /\ error_count' = 0
           ELSE ppc' = after /\ UNCHANGED Loop

\* run's "if repos", and make_repositories_private up to its loop
make_repositories_private ==
    /\ ppc = "make"
    /\ IF found_repos = <<>> \/ privacy_dry_run
       THEN ppc' = "forks" /\ UNCHANGED <<Loop, answers>>
       ELSE Confirm("private", "private_loop", "forks")
    /\ UNCHANGED <<Backup, Creation, Cli, hosted, hostedAtStart, privacy_dry_run, found_repos, found_forks,
                   reports, apicalls>>

\* A loop that a failed call ends.
Attempt_stop_on_error(op, list, effect) ==
    /\ at <= Len(list)
    /\ \E result \in ApiResults :
        /\ apicalls' = Append(apicalls, [op |-> op, repo |-> list[at], result |-> result])
        /\ hosted' = IF result = "ok" THEN effect ELSE hosted
        /\ success_count' = IF result = "ok" THEN success_count + 1 ELSE success_count
        /\ error_count' = IF result = "ok" THEN error_count ELSE error_count + 1
        /\ at' = IF result = "ok" THEN at + 1 ELSE Len(list) + 1
    /\ UNCHANGED <<Backup, Creation, Cli, hostedAtStart, privacy_dry_run, ppc, found_repos, found_forks,
                   answers, reports>>

\* One pass of a loop: the call on the repository at the loop's position, its
\* effect on the host when it succeeds, and the counting of its result.
Attempt(op, list, effect) ==
    /\ at <= Len(list)
    /\ \E result \in ApiResults :
        /\ apicalls' = Append(apicalls, [op |-> op, repo |-> list[at], result |-> result])
        /\ hosted' = IF result = "ok" THEN effect ELSE hosted
        /\ success_count' = IF result = "ok" THEN success_count + 1 ELSE success_count
        /\ error_count' = IF result = "ok" THEN error_count ELSE error_count + 1
    /\ at' = at + 1
    /\ UNCHANGED <<Backup, Creation, Cli, hostedAtStart, privacy_dry_run, ppc, found_repos, found_forks,
                   answers, reports>>

\* The end of a loop: its counts are printed.
Report(loop, interrupted) ==
    reports' = Append(reports, [loop |-> loop, success |-> success_count,
                                failed |-> error_count, interrupted |-> interrupted])

\* KeyboardInterrupt in a loop, between two calls or during one; the call in
\* flight may have taken effect on the host.
Interrupted_in(loop, op, list, effect, after) ==
    /\ at <= Len(list)
    /\ \/ UNCHANGED <<hosted, apicalls>>
       \/ /\ apicalls' = Append(apicalls, [op |-> op, repo |-> list[at], result |-> "interrupted"])
          /\ hosted' \in {hosted, effect}
    /\ Report(loop, TRUE)
    /\ ppc' = after
    /\ UNCHANGED <<Backup, Creation, Cli, hostedAtStart, privacy_dry_run, found_repos, found_forks, Loop,
                   answers>>

\* repo['repo_obj'].edit(private=True) in the loop of make_repositories_private
EditPrivate ==
    /\ ppc = "private_loop"
    /\ Attempt("edit", found_repos, [hosted EXCEPT ![found_repos[at]].private = TRUE])

MakePrivateDone ==
    /\ ppc = "private_loop"
    /\ at > Len(found_repos)
    /\ Report("private", FALSE)
    /\ ppc' = "forks"
    /\ UNCHANGED <<Backup, Creation, Cli, hosted, hostedAtStart, privacy_dry_run, found_repos, found_forks,
                   Loop, answers, apicalls>>

MakePrivateInterrupt ==
    /\ ppc = "private_loop"
    /\ Interrupted_in("private", "edit", found_repos,
                      [hosted EXCEPT ![found_repos[at]].private = TRUE], "forks")

\* A run that hands the forks found to handle_forks in a dry run too.
ForksHandled_in_dry_run(forks, dry) == forks # <<>>

\* run's condition for calling handle_forks
ForksHandled(forks, dry) == forks # <<>> /\ ~dry

\* run's "if forks and not dry_run", and handle_forks up to its loop
handle_forks ==
    /\ ppc = "forks"
    /\ IF ~ForksHandled(found_forks, privacy_dry_run)
       THEN ppc' = "done" /\ UNCHANGED <<Loop, answers>>
       ELSE Confirm("forks", "fork_loop", "done")
    /\ UNCHANGED <<Backup, Creation, Cli, hosted, hostedAtStart, privacy_dry_run, found_repos, found_forks,
                   reports, apicalls>>

\* fork['repo_obj'].delete() in the loop of handle_forks
DeleteFork ==
    /\ ppc = "fork_loop"
    /\ Attempt("delete", found_forks, [hosted EXCEPT ![found_forks[at]].deleted = TRUE])

HandleForksDone ==
    /\ ppc = "fork_loop"
    /\ at > Len(found_forks)
    /\ Report("forks", FALSE)
    /\ ppc' = "done"
    /\ UNCHANGED <<Backup, Creation, Cli, hosted, hostedAtStart, privacy_dry_run, found_repos, found_forks,
                   Loop, answers, apicalls>>

HandleForksInterrupt ==
    /\ ppc = "fork_loop"
    /\ Interrupted_in("forks", "delete", found_forks,
                      [hosted EXCEPT ![found_forks[at]].deleted = TRUE], "done")

\* The privacy command of main.py on any account, with or without --execute.
InitPrivacy ==
    /\ InitWith({<<>>})
    /\ envToken = Token
    /\ dirs = {}
    /\ dry_run
    /\ head = [p \in Paths |-> "none"]
    /\ hosted \in HostedAccounts
    /\ hostedAtStart = hosted
    /\ privacy_dry_run \in BOOLEAN
    /\ ppc = "start"
    /\ found_repos = <<>>
    /\ found_forks = <<>>
    /\ at = 0
    /\ success_count = 0
    /\ error_count = 0
    /\ answers = <<>>
    /\ reports = <<>>
    /\ apicalls = <<>>
    /\ CreationIdle
    /\ CliIdle

NextPrivacy ==
    \/ run_privacy_command
    \/ find_zero_star_public_repos
    \/ make_repositories_private
    \/ EditPrivate
    \/ MakePrivateDone
    \/ MakePrivateInterrupt
    \/ handle_forks
    \/ DeleteFork
    \/ HandleForksDone
    \/ HandleForksInterrupt

SpecPrivacy == InitPrivacy /\ [][NextPrivacy]_vars

\* ----------------------------------------------------------------- claims
Interrupted == pc = "exited" /\ exitCode = 130

TransferFailed(o) == ~o.result /\ o.ending \in {"exit_nonzero", "timeout", "error"}

\* C1: failure isolation. When the transfer of some repository fails (non-zero
\* exit, timeout or another exception) and the run is not interrupted, the loop
\* still calls an operation for every repository of the list, records one
\* outcome for each, in order, and the results table reports total = N.
C1_FailureIsolation ==
    (pc = "exited" /\ ~Interrupted /\ \E k \in 1..Len(outcomes) : TransferFailed(outcomes[k]))
        => /\ summary.printed
           /\ summary.total = Len(repos)
           /\ Len(outcomes) = Len(repos)
           /\ Len(calls) = Len(repos)
           /\ \A k \in 1..Len(repos) : outcomes[k].idx = k /\ calls[k].idx = k

C1_Witness ==
    /\ pc = "exited"
    /\ summary.printed
    /\ Len(outcomes) = 2
    /\ outcomes[1].ending = "timeout"
    /\ outcomes[2].ending = "exit0"

PreviouslyCloned(p) == \E r \in 1..(run - 1) : <<p, r>> \in cloned

\* C2 as stated: in a Live run, a repository that an earlier run cloned
\* successfully and whose history has not diverged since is counted as updated.
C2_Original ==
    \A k \in 1..Len(outcomes) :
        (/\ ~dry_run
         /\ PreviouslyCloned(calls[k].path)
         /\ outcomes[k].line # Line_CouldNotUpdate(repos[k], NotFastForward))
            => outcomes[k].op = "update" /\ outcomes[k].result

\* C2, amended: idempotent placement. No path is cloned successfully in two
\* runs; in a Live run, a repository that an earlier run cloned successfully
\* takes the update path, the only git command started for it is the pull, and
\* it is counted as updated exactly when the pull exits 0 and as failed
\* otherwise, never as newly cloned.
C2_IdempotentPlacement ==
    /\ \A p \in Paths : Cardinality({r \in 1..MaxRuns : <<p, r>> \in cloned}) <= 1
    /\ \A k \in 1..Len(calls) :
        (~dry_run /\ PreviouslyCloned(calls[k].path)) => calls[k].op = "update"
    /\ \A k \in 1..Len(cmds) :
        PreviouslyCloned(cmds[k].path) => cmds[k].op = "pull"
    /\ \A k \in 1..Len(outcomes) :
        (~dry_run /\ PreviouslyCloned(calls[k].path))
            => /\ outcomes[k].op = "update"
               /\ outcomes[k].ending \in Endings
               /\ outcomes[k].result <=> outcomes[k].ending = "exit0"

C2_Witness ==
    /\ run = 2
    /\ ~dry_run
    /\ \E k \in 1..Len(outcomes) :
        /\ <<calls[k].path, 1>> \in cloned
        /\ outcomes[k].op = "update"
        /\ outcomes[k].ending = "exit0"
        /\ updated = 1

\* C3: a dry run creates or modifies no directory, the category directories of
\* the setup step included.
C3_DryRunNoSideEffects ==
    dry_run => (dirs = dirsAtStart /\ tree = treeAtStart)

\* The urls with the token that clone_repository builds for the listed repositories.
TokenUrls == {Inject(account[k].clone_url, envToken) : k \in 1..Len(account)}

\* C4: no line sent to the console holds a token-bearing url, whatever the
\* outcome and whatever git wrote on stderr (the results table holds counts only).
C4_NoCredentialInReports ==
    envToken = Token =>
        \A n \in 1..Len(console) : \A u \in TokenUrls : ~Contains(console[n], u)

\* C5: a token-bearing url is passed to one git command only, is stored in no
\* working copy's recorded origin, and no pull is given a url.
C5_CredentialNotPersisted ==
    /\ \A x, y \in 1..Len(cmds) :
        (cmds[x].url = cmds[y].url /\ Contains(cmds[x].url, <<Token>>)) => x = y
    /\ \A x \in 1..Len(cmds) : cmds[x].op = "pull" => cmds[x].url = NoUrl
    /\ \A p \in Paths : ~Contains(origin[p], <<Token>>)

\* C6: a run ended by an interrupt has reported the counters collected for the
\* repositories processed so far.
C6_InterruptKeepsSummary ==
    Interrupted =>
        /\ summary.printed
        /\ summary.newly_cloned = successful
        /\ summary.updated = updated
        /\ summary.failed = failed

\* The routing rule as a table of (fork, private).
RouteTable(fork, private) ==
    CASE fork /\ private -> "forks"
      [] fork /\ ~private -> "forks"
      [] ~fork /\ private -> "private"
      [] ~fork /\ ~private -> "public"

\* C7: routing rule. Every repository the loop processes is routed to the one
\* partition the table gives for its (fork, private), a private fork to forks,
\* under its own name; and two descriptors with the same (fork, private) are
\* routed to the same partition whatever their other fields.
C7_RoutingRule ==
    /\ \A k \in 1..Len(calls) :
        LET repo == repos[calls[k].idx]
        IN  /\ calls[k].path[1] = RouteTable(repo.fork, repo.private)
            /\ calls[k].path[2] = repo.name
    /\ \A x, y \in 1..Len(account) :
        (account[x].fork = account[y].fork /\ account[x].private = account[y].private)
            => get_backup_subdirectory(account[x]) = get_backup_subdirectory(account[y])

C7_Witness ==
    \E k \in 1..Len(calls) :
        /\ repos[calls[k].idx].fork
        /\ repos[calls[k].idx].private
        /\ calls[k].path[1] = "forks"

\* C8: clone-vs-update decision. For every repository the loop processes, the
\* operation called is update exactly when the path held a .git marker at the
\* check, and clone otherwise (nothing there, or a directory without marker);
\* one operation per repository, and every git command started for it is that
\* operation's.
C8_CloneVsUpdate ==
    /\ \A k \in 1..Len(calls) :
        /\ calls[k].idx = k
        /\ calls[k].op = "update" <=> calls[k].kind \in {"partial", "repo"}
        /\ calls[k].op = "clone" <=> calls[k].kind \in {"absent", "emptydir", "dir"}
    /\ \A k \in 1..Len(outcomes) : outcomes[k].op = calls[k].op
    /\ \A c \in 1..Len(cmds) :
        cmds[c].op = (IF calls[cmds[c].idx].op = "update" THEN "pull" ELSE "clone")

C8_Witness ==
    /\ Len(calls) = 2
    /\ calls[1].kind = "dir" /\ calls[1].op = "clone"
    /\ calls[2].kind = "repo" /\ calls[2].op = "update"
    /\ Len(cmds) = 2

\* C9 as stated: in a Live run, a repository whose path holds a non-empty
\* directory without marker is left as it is and is not counted as failed.
C9_Original ==
    \A k \in 1..Len(outcomes) :
        (~dry_run /\ calls[k].kind = "dir")
            => tree[calls[k].path] = "dir" /\ outcomes[k].result

\* C9, amended: in a Live run, a repository whose path holds a non-empty
\* directory without marker is not skipped: git clone is started on the path,
\* the directory is left as it is, and the repository is counted as failed.
C9_ExistingDirectory ==
    \A k \in 1..Len(outcomes) :
        (~dry_run /\ calls[k].kind = "dir")
            => /\ tree[calls[k].path] = "dir"
               /\ TransferFailed(outcomes[k])
               /\ outcomes[k].op = "clone"
               /\ failed >= 1
               /\ \E c \in 1..Len(cmds) : cmds[c].idx = k /\ cmds[c].op = "clone"

C9_Witness ==
    \E k \in 1..Len(outcomes) :
        /\ ~dry_run
        /\ calls[k].kind = "dir"
        /\ outcomes[k].ending = "exit_nonzero"
        /\ pc = "exited"
        /\ summary.failed >= 1

TimeoutLine(o) ==
    IF o.op = "clone" THEN Line_TimeoutClone(repos[o.idx]) ELSE Line_TimeoutUpdate(repos[o.idx])

\* C10: timeout classification. A clone or pull that exceeded its timeout is
\* reported with the 'Timeout cloning/updating' line and counted as failed,
\* never with the line that carries stderr; a non-zero exit is reported with the
\* line that carries stderr, never as a timeout; and failed counts both.
C10_TimeoutClassification ==
    /\ \A k \in 1..Len(outcomes) :
        LET o == outcomes[k]
        IN  /\ o.ending = "timeout"
                => ~o.result /\ o.line = TimeoutLine(o) /\ \E n \in 1..Len(console) : console[n] = o.line
            /\ o.ending = "exit_nonzero"
                => /\ ~o.result
                   /\ o.line # TimeoutLine(o)
                   /\ o.line[1] = (IF o.op = "clone" THEN "Failed to clone " ELSE "Could not update ")
    /\ failed = Cardinality({k \in 1..Len(outcomes) : ~outcomes[k].result})

C10_Witness ==
    /\ Len(outcomes) = 2
    /\ outcomes[1].ending = "timeout" /\ outcomes[1].op = "update"
    /\ outcomes[2].ending = "exit_nonzero" /\ outcomes[2].op = "clone"
    /\ failed = 2

\* The path the routing rule gives a descriptor, written out from its flags.
RoutedPath(repo) == <<RouteTable(repo.fork, repo.private), repo.name>>

\* C11: a Live run over N listed repositories none of which has a working copy
\* yet, in which no transfer fails, clones each of them into
\* root/<forks|private|public>/<name> and reports newly cloned = N, updated = 0,
\* failed = 0, total = N.
C11_AllNewBatch ==
    (/\ pc = "exited"
     /\ summary.printed
     /\ ~dry_run
     /\ \A p \in Paths : ~HasMarker(treeAtStart[p])
     /\ \A k \in 1..Len(outcomes) : ~TransferFailed(outcomes[k]))
        => /\ summary = [printed |-> TRUE, newly_cloned |-> Len(account), updated |-> 0,
                         failed |-> 0, total |-> Len(account)]
           /\ Len(cmds) = Len(account)
           /\ \A k \in 1..Len(account) :
                /\ cmds[k].op = "clone"
                /\ cmds[k].path = RoutedPath(account[k])
                /\ tree[RoutedPath(account[k])] = "repo"
                /\ <<RoutedPath(account[k]), run>> \in cloned

C11_Witness ==
    /\ pc = "exited"
    /\ ~dry_run
    /\ \A p \in Paths : treeAtStart[p] = "absent"
    /\ Len(account) = 2
    /\ summary = [printed |-> TRUE, newly_cloned |-> 2, updated |-> 0, failed |-> 0,
                  total |-> 2]

\* C12: the backup root and the three category directories exist whenever a
\* repository is listed or processed; setup does not fail when they exist
\* already; and a run whose setup fails ends with status 1 having listed,
\* cloned and updated nothing.
C12_SetupFirstAndFatal ==
    /\ (pc \in {"list", "loop", "called", "running"} \/ repos # <<>> \/ calls # <<>>)
            => dirs = AllDirs
    /\ dirsAtStart = AllDirs => \A n \in 1..Len(console) : console[n] # Line_DirsError
    /\ (\E n \in 1..Len(console) : console[n] = Line_DirsError)
            => /\ pc = "exited"
               /\ exitCode = 1
               /\ repos = <<>>
               /\ calls = <<>>
               /\ cmds = <<>>
               /\ outcomes = <<>>
               /\ ~summary.printed
               /\ tree = treeAtStart

C12_Witness ==
    /\ pc = "exited"
    /\ exitCode = 1
    /\ \E n \in 1..Len(console) : console[n] = Line_DirsError
    /\ dirs = {Root}
    /\ account # <<>>

\* C13: in one run at most one git command is started for a repository, and
\* a repository whose operation failed is not processed again: the commands,
\* the checks and the results of a run are each for a later repository than
\* the one before.
C13_OneAttempt ==
    /\ \A x \in 2..Len(cmds) : cmds[x - 1].idx < cmds[x].idx
    /\ \A x \in 2..Len(calls) : calls[x - 1].idx < calls[x].idx
    /\ \A x \in 2..Len(outcomes) : outcomes[x - 1].idx < outcomes[x].idx
    /\ Len(cmds) <= Len(repos)

C13_Witness ==
    /\ pc = "exited"
    /\ summary.printed
    /\ Len(cmds) = 2
    /\ TransferFailed(outcomes[1])
    /\ cmds[1].idx = 1
    /\ cmds[2].idx = 2

\* Commands of this run that have returned, been killed on timeout, or raised.
Ended == {k \in 1..Len(outcomes) : outcomes[k].ending \in Endings}

\* C14: repositories are processed in the order the host listed them, one at
\* a time: the k-th check is for the k-th listed repository, a git command is
\* in flight only while the loop waits for it, and every earlier command has
\* ended before the next is started.
C14_Sequential ==
    /\ repos # <<>> => repos = account
    /\ \A k \in 1..Len(calls) : calls[k].idx = k /\ calls[k].path = repo_path(account[k])
    /\ \A x \in 1..Len(cmds) : cmds[x].path = repo_path(account[cmds[x].idx])
    /\ (proc # NoProc) <=> (pc = "running")
    /\ pc = "running" => /\ Len(cmds) = Cardinality(Ended) + 1
                         /\ cmds[Len(cmds)].idx = i
                         /\ Len(outcomes) = i - 1
    /\ pc \in {"loop", "called"} => Len(cmds) = Cardinality(Ended)

C14_Witness ==
    /\ pc = "running"
    /\ i = 2
    /\ Len(cmds) = 2
    /\ outcomes[1].ending \in Endings
    /\ account[1].name = "a"
    /\ cmds[2].path[2] = "b"

C16_TimeoutRecoverable ==
    (/\ pc = "running"
     /\ run > 1
     /\ ~dry_run
     /\ proc.path \in timedOut
     /\ tree[proc.path] \in {"absent", "emptydir", "partial"})
        => ENABLED (CloneExitZero \/ PullExitZero)

\* C17: a run of backup_repositories that reaches the end of a non-empty list
\* prints the three counts and the total, whether or not repositories failed,
\* and ends with exit status 0 whatever the failed count is.
C17_SummaryAndExit ==
    (pc = "exited" /\ repos # <<>> /\ Len(outcomes) = Len(repos) /\ ~Interrupted)
        => /\ summary = [printed |-> TRUE, newly_cloned |-> successful, updated |-> updated,
                         failed |-> failed, total |-> Len(repos)]
           /\ failed = Cardinality({k \in 1..Len(outcomes) : ~outcomes[k].result})
           /\ exitCode = 0

C17_Witness ==
    /\ pc = "exited"
    /\ exitCode = 0
    /\ summary.printed
    /\ summary.total = 2
    /\ summary.failed = 1
    /\ summary.newly_cloned = 1

\* C20: the url given to git clone is the descriptor's clone_url with the token
\* put in as user-info when clone_url starts with https://github.com/, and is
\* clone_url itself for every other form of url; the descriptor keeps its
\* clone_url.
C20_InjectionRule ==
    \A c \in 1..Len(cmds) :
        cmds[c].op = "clone" =>
            LET d == account[cmds[c].idx]
            IN  /\ cmds[c].url =
                        IF Head(d.clone_url) = "https://github.com/"
                        THEN <<"https://", envToken, "@github.com/">> \o Tail(d.clone_url)
                        ELSE d.clone_url
                /\ repos[cmds[c].idx].clone_url = d.clone_url
                /\ (pc = "running" /\ c = Len(cmds)) => proc.url = cmds[c].url

C20_Witness ==
    /\ pc = "running"
    /\ proc.op = "clone"
    /\ account[1].clone_url = <<"git@github.com:", "me", "/", "a", ".git">>
    /\ proc.url = <<"git@github.com:", "me", "/", "a", ".git">>

\* C18: while the privacy manager runs with dry_run = True, no mutating call
\* is made on the host: no repository's visibility is edited and none is
\* deleted, whatever repositories and forks were found.
C18_PrivacyDryRun ==
    privacy_dry_run => hosted = hostedAtStart /\ apicalls = <<>> /\ answers = <<>>

C18_Witness ==
    /\ privacy_dry_run
    /\ ppc = "done"
    /\ found_repos # <<>>
    /\ found_forks # <<>>

\* C19: in a run of the privacy manager, dry or not and whatever the user
\* answers, no mutating call is made on a fork, and every fork stays as it
\* was: not made private, not deleted.
C19_ForksExcluded ==
    /\ \A k \in 1..Len(hosted) : hostedAtStart[k].fork => hosted[k] = hostedAtStart[k]
    /\ \A c \in 1..Len(apicalls) : ~hostedAtStart[apicalls[c].repo].fork

\* C21: in a dry run no git command is started; each repository is reported
\* as a planned clone exactly when a Live run would call clone_repository for
\* what is at its path, and as a planned update exactly when a Live run would
\* call update_repository; the printed line names the action and holds the
\* destination path; and no repository is counted as failed.
C21_DryRunPlanning ==
    dry_run =>
        /\ cmds = <<>>
        /\ failed = 0
        /\ \A k \in 1..Len(outcomes) :
            /\ outcomes[k].result
            /\ (Head(outcomes[k].line) = "Would clone: ") <=> (Decide(calls[k].kind) = "clone")
            /\ (Head(outcomes[k].line) = "Would update: ") <=> (Decide(calls[k].kind) = "update")
            /\ Contains(outcomes[k].line, PathStr(calls[k].path))

\* The repositories of this run whose result was counted.
Processed == Len(outcomes)

\* C24: throughout backup_repositories the three counters add up to the
\* number of repositories processed so far; processing a repository adds one
\* to exactly one counter and leaves the other two as they were; no step
\* lowers a counter; and the table printed at the end shows counts that add
\* up to its total, the length of the list.
C24_CounterInvariant ==
    /\ [](/\ successful + updated + failed = Processed
          /\ pc \in {"loop", "called", "running"} => Processed = i - 1
          /\ summary.printed =>
                /\ summary.newly_cloned + summary.updated + summary.failed = summary.total
                /\ summary.total = Len(repos)
                /\ summary.total = Processed)
    /\ [][/\ successful' >= successful
          /\ updated' >= updated
          /\ failed' >= failed
          /\ Len(outcomes') = Processed + 1 =>
                <<successful' - successful, updated' - updated, failed' - failed>>
                    \in {<<1, 0, 0>>, <<0, 1, 0>>, <<0, 0, 1>>}
          /\ Len(outcomes') = Processed =>
                <<successful', updated', failed'>> = <<successful, updated, failed>>]_vars

C24_Witness ==
    /\ pc = "loop"
    /\ i = 3
    /\ successful = 1
    /\ updated = 0
    /\ failed = 1

\* C27: the user-info of every url that clone_repository hands to git clone is
\* a token that is not empty and is the token the GitHubRepoBackup instance
\* was built with.
C27_InjectedIsManagers ==
    \A c \in 1..Len(cmds) :
        cmds[c].op = "clone" =>
            /\ self_token # NoToken
            /\ cmds[c].url = <<"https://", self_token, "@github.com/">>
                                \o Tail(account[cmds[c].idx].clone_url)

C27_Witness ==
    /\ pc = "running"
    /\ proc.op = "clone"
    /\ self_token = Token
    /\ proc.url[2] = Token

\* The category directory whose name is on a row of the preview table.
RowCount(category) ==
    IF category = "public" THEN preview.public
    ELSE IF category = "private" THEN preview.private
    ELSE preview.forks

\* C28: in the table of display_backup_summary every listed repository is in
\* exactly one of the three lists, the three counts add up to the total, and
\* the list a repository is in is the one of the category directory that
\* get_backup_subdirectory routes it to.
C28_PreviewAgreesWithRouter ==
    preview.printed =>
        /\ preview.public + preview.private + preview.forks = preview.total
        /\ preview.total = Len(repos)
        /\ \A k \in 1..Len(repos) :
            /\ InPublic(repos[k]) <=> get_backup_subdirectory(repos[k]) = "public"
            /\ InPrivate(repos[k]) <=> get_backup_subdirectory(repos[k]) = "private"
            /\ InForks(repos[k]) <=> get_backup_subdirectory(repos[k]) = "forks"
        /\ \A c \in Categories :
            RowCount(c) = Cardinality({k \in 1..Len(repos) : get_backup_subdirectory(repos[k]) = c})

C28_Witness ==
    /\ preview.printed
    /\ preview.total = 2
    /\ preview.forks = 1
    /\ preview.private = 1
    /\ repos[1].private
    /\ repos[1].fork

\* C25: two listed repositories with different full names never have the
\* same local path, so that in a Live run a repository counted as newly
\* cloned or updated has a working copy of its own at its path: one whose
\* origin is that repository.
C25_DistinctPaths ==
    /\ \A x, y \in 1..Len(repos) :
            repos[x].full_name # repos[y].full_name => repo_path(repos[x]) # repo_path(repos[y])
    /\ ~dry_run =>
            \A k \in 1..Len(outcomes) :
                outcomes[k].result =>
                    /\ tree[repo_path(repos[k])] = "repo"
                    /\ origin[repo_path(repos[k])] \in
                            {repos[k].clone_url, Inject(repos[k].clone_url, envToken)}

\* C26: in a Live run the "newly cloned" counter is the number of
\* repositories whose git clone was started and exited 0 in this run, and the
\* "failed" counter is the number of repositories whose git command failed,
\* also when another process changes a repository's path between the loop's
\* check and the check inside clone_repository or update_repository.
C26_CountsMatchTransfers ==
    ~dry_run =>
        /\ successful = Cardinality({k \in 1..Len(outcomes) :
                            outcomes[k].op = "clone" /\ outcomes[k].ending = "exit0"})
        /\ failed = Cardinality({k \in 1..Len(outcomes) : TransferFailed(outcomes[k])})

\* C29: git clone runs under a timeout of 300 seconds and git pull under the
\* shorter one of 60 seconds; once backup_repositories has entered its loop
\* it reaches the end of the list and prints the results table, also after
\* timeouts on repositories of the list.
C29_Termination ==
    /\ [](pc = "running" =>
            /\ proc.timeout = (IF proc.op = "clone" THEN 300 ELSE 60)
            /\ UpdateTimeoutSeconds < CloneTimeoutSeconds)
    /\ (pc = "loop") ~> (pc = "exited" /\ summary.printed /\ Len(outcomes) = Len(repos))

C29_Witness ==
    /\ pc = "exited"
    /\ summary.printed
    /\ Len(outcomes) = 2
    /\ outcomes[1].ending = "timeout"
    /\ outcomes[1].op = "clone"
    /\ outcomes[2].ending = "exit0"

\* The calls of one kind that returned or raised an exception the loop handles.
Completed(op) == {c \in 1..Len(apicalls) : apicalls[c].op = op /\ apicalls[c].result \in ApiResults}

Answered(prompt, yes) == \E a \in 1..Len(answers) : answers[a] = [prompt |-> prompt, yes |-> yes]

LoopOp(loop) == IF loop = "private" THEN "edit" ELSE "delete"

LoopList(loop) == IF loop = "private" THEN found_repos ELSE found_forks

\* C30: in the loops of make_repositories_private and handle_forks the two
\* counters add up to the number of repositories whose attempt has ended; a
\* loop that is not interrupted attempts every repository of its list
\* whatever failed before; the host is called and changed only after a yes to
\* the loop's confirmation prompt; and every loop that was started, run to its
\* end or interrupted, reports the counts it has collected.
C30_PrivacyLoops ==
    /\ ppc \in {"private_loop", "fork_loop"} => success_count + error_count = at - 1
    /\ ppc = "private_loop" => success_count + error_count = Cardinality(Completed("edit"))
    /\ ppc = "fork_loop" => success_count + error_count = Cardinality(Completed("delete"))
    /\ \A r \in 1..Len(reports) :
        /\ reports[r].success + reports[r].failed
                = Cardinality(Completed(LoopOp(reports[r].loop)))
        /\ reports[r].success
                = Cardinality({c \in Completed(LoopOp(reports[r].loop)) : apicalls[c].result = "ok"})
        /\ ~reports[r].interrupted =>
                reports[r].success + reports[r].failed = Len(LoopList(reports[r].loop))
    /\ \A c \in 1..Len(apicalls) :
            Answered(IF apicalls[c].op = "edit" THEN "private" ELSE "forks", TRUE)
    /\ hosted # hostedAtStart => \E a \in 1..Len(answers) : answers[a].yes
    /\ (Answered("private", TRUE) /\ ppc \in {"forks", "fork_loop", "done"})
            => \E r \in 1..Len(reports) : reports[r].loop = "private"
    /\ (Answered("forks", TRUE) /\ ppc = "done")
            => \E r \in 1..Len(reports) : reports[r].loop = "forks"

C30_Witness ==
    /\ ppc = "done"
    /\ Len(found_repos) = 2
    /\ Len(apicalls) = 2
    /\ apicalls[1].result = "GithubException"
    /\ apicalls[2].result = "ok"
    /\ reports = <<[loop |-> "private", success |-> 1, failed |-> 1, interrupted |-> FALSE]>>

\* ===================================================== repository creation
\* src/create_github_repo.py (create_github_repository) and src/create_repo.py
\* (create_github_repo, the same steps with repo_name "Repo-Tools").
MaxCreateCalls == 2   \* calls of create_github_repository with the same arguments

Visibilities == {"none", "public", "private"}

\* How user.get_repo(repo_name) can end when the account holds `held` under the
\* name: it returns the repository, raises GithubException with status 404,
\* raises GithubException with another status, or raises another exception.
LookupResults(held) ==
    (IF held = "none" THEN {"404"} ELSE {"found"}) \cup {"api_error", "error"}

OnLookup_create_unless_found(result) ==
    IF result = "found" THEN "return_true" ELSE "create"

\* What create_github_repository does with the result of the lookup.
OnLookup(result) ==
    IF result = "found" THEN "return_true"          \* "already exists", return True
    ELSE IF result = "404" THEN "create"            \* e.status == 404: fall through
    ELSE "return_false"                             \* raise e -> outer except, or except Exception

\* create_github_repository up to the end of user.get_repo(repo_name)
GetRepo ==
    /\ cpc = "start"
    /\ \E result \in LookupResults(remote[repo_name]) :
        /\ lookup' = result
        /\ cpc' = IF OnLookup(result) = "create" THEN "creating" ELSE "returned"
        /\ returned' = IF OnLookup(result) = "return_true" THEN "True"
                       ELSE IF OnLookup(result) = "return_false" THEN "False"
                       ELSE returned
    /\ UNCHANGED <<remote, remoteAtCall, repo_name, create_private, create_call, creates,
                   prev_returned>>
    /\ UNCHANGED <<Backup, Privacy, Cli>>

\* user.create_repo(name=repo_name, private=private, ...) and the return
CreateRepo ==
    /\ cpc = "creating"
    /\ \E ok \in BOOLEAN :
        /\ creates' = Append(creates, [name |-> repo_name, private |-> create_private,
                                       ok |-> ok])
        /\ remote' = IF ok THEN [remote EXCEPT ![repo_name] =
                                    IF create_private THEN "private" ELSE "public"]
                     ELSE remote
        /\ returned' = IF ok THEN "True" ELSE "False"   \* except GithubException / Exception
    /\ cpc' = "returned"
    /\ UNCHANGED <<remoteAtCall, repo_name, create_private, create_call, lookup,
                   prev_returned>>
    /\ UNCHANGED <<Backup, Privacy, Cli>>

\* The caller runs the creation again with the same arguments.
CallAgain ==
    /\ cpc = "returned"
    /\ cli_pc = "idle"
    /\ create_call < MaxCreateCalls
    /\ create_call' = create_call + 1
    /\ prev_returned' = returned
    /\ remoteAtCall' = remote
    /\ cpc' = "start"
    /\ lookup' = "none"
    /\ creates' = <<>>
    /\ returned' = "none"
    /\ UNCHANGED <<remote, repo_name, create_private>>
    /\ UNCHANGED <<Backup, Privacy, Cli>>

InitCreate ==
    /\ InitWith({<<>>})
    /\ envToken = Token
    /\ dirs = {}
    /\ dry_run
    /\ head = [p \in Paths |-> "none"]
    /\ PrivacyIdle
    /\ CliIdle
    /\ remote \in [Names -> Visibilities]
    /\ remoteAtCall = remote
    /\ repo_name \in Names
    /\ create_private \in BOOLEAN
    /\ cpc = "start"
    /\ create_call = 1
    /\ lookup = "none"
    /\ creates = <<>>
    /\ returned = "none"
    /\ prev_returned = "none"

NextCreate ==
    \/ GetRepo
    \/ CreateRepo
    \/ CallAgain

SpecCreate == InitCreate /\ [][NextCreate]_vars

\* C22: repository creation is check-then-create and idempotent. A call makes
\* at most one create call, and only after its lookup of the name returned
\* "not found" (404); when the lookup finds the repository the call returns
\* True without a create call and without a change on the host; when the
\* lookup fails with any other error the call returns False without a create
\* call; and a call that follows a call that returned True makes no create
\* call and changes nothing on the host.
C22_CheckThenCreate ==
    /\ Len(creates) <= 1
    /\ creates # <<>> => lookup = "404" /\ remoteAtCall[repo_name] = "none"
    /\ cpc = "returned" /\ lookup = "found" =>
            returned = "True" /\ creates = <<>> /\ remote = remoteAtCall
    /\ cpc = "returned" /\ lookup \in {"api_error", "error"} =>
            returned = "False" /\ creates = <<>> /\ remote = remoteAtCall
    /\ create_call > 1 /\ prev_returned = "True" =>
            creates = <<>> /\ remote = remoteAtCall /\ lookup # "404"

\* The second call finds the repository the first call created and returns True.
C22_WitnessRepeat ==
    /\ cpc = "returned"
    /\ create_call = 2
    /\ prev_returned = "True"
    /\ remoteAtCall[repo_name] # "none"
    /\ lookup = "found"
    /\ returned = "True"
    /\ creates = <<>>

\* A call whose lookup returned 404 made its one create call.
C22_Witness ==
    /\ cpc = "returned"
    /\ lookup = "404"
    /\ Len(creates) = 1
    /\ creates[1].ok
    /\ remote[repo_name] # "none"
    /\ returned = "True"

\* ===================================================== unified command line
\* GitHubCLI.run of src/main.py: argparse, the welcome and help displays, the
\* token check and the routing to the four command handlers.
HandlerCommands == {"list", "privacy", "backup", "create"}
Subcommands == HandlerCommands \cup {"help"}
Words == Subcommands \cup {"", "bogus"}      \* first word of the command line
Topics == {"", "backup", "bogus"}            \* word after help

check_token_always == TRUE

\* check_token: os.getenv('GITHUB_TOKEN') is a non-empty string
check_token == envToken # NoToken

\* run, from parse_args to the start of a command handler or to the exit
run_cli ==
    /\ cli_pc = "start"
    /\ IF command \notin Subcommands \cup {""}
       THEN \* argparse rejects the word: parser.error exits with status 2
            /\ cli_pc' = "exited"
            /\ cli_exit' = 2
            /\ UNCHANGED <<handler, shown>>
       ELSE IF command = ""
       THEN /\ shown' = "welcome"
            /\ cli_pc' = "exited"
            /\ cli_exit' = 0
            /\ UNCHANGED handler
       ELSE IF command = "help"
       THEN /\ shown' = IF topic # "" THEN "command_help" ELSE "welcome"
            /\ cli_pc' = "exited"
            /\ cli_exit' = 0
            /\ UNCHANGED handler
       ELSE IF ~check_token
       THEN /\ shown' = "token_not_set"
            /\ cli_pc' = "exited"
            /\ cli_exit' = 1
            /\ UNCHANGED handler
       ELSE /\ handler' = command
            /\ cli_pc' = "handler"
            /\ UNCHANGED <<shown, cli_exit>>
    /\ UNCHANGED <<command, topic>>
    /\ UNCHANGED <<Backup, Privacy, Creation>>

\* run_list_command, run_privacy_command or run_backup_command runs to its
\* end: it returns, or leaves through sys.exit
HandlerEnds ==
    /\ cli_pc = "handler"
    /\ handler \in {"list", "privacy", "backup"}
    /\ cli_pc' = "exited"
    /\ cli_exit' \in {0, 1}
    /\ UNCHANGED <<command, topic, handler, shown>>
    /\ UNCHANGED <<Backup, Privacy, Creation>>

\* run_create_command up to the call of create_github_repository, or to the
\* exit when the user declines "Proceed with repository creation?"
run_create_command ==
    /\ cli_pc = "handler"
    /\ handler = "create"
    /\ cpc = "idle"
    /\ \E proceed \in BOOLEAN :
        IF proceed
        THEN /\ cpc' = "start"
             /\ create_call' = 1
             /\ UNCHANGED <<cli_pc, cli_exit>>
        ELSE /\ cli_pc' = "exited"
             /\ cli_exit' = 0
             /\ UNCHANGED <<cpc, create_call>>
    /\ UNCHANGED <<remote, remoteAtCall, repo_name, create_private, lookup, creates,
                   returned, prev_returned>>
    /\ UNCHANGED <<command, topic, handler, shown>>
    /\ UNCHANGED <<Backup, Privacy>>

\* run_create_command after create_github_repository returned
CreateCommandEnds ==
    /\ cli_pc = "handler"
    /\ handler = "create"
    /\ cpc = "returned"
    /\ cli_pc' = "exited"
    /\ cli_exit' = IF returned = "True" THEN 0 ELSE 1
    /\ UNCHANGED <<command, topic, handler, shown>>
    /\ UNCHANGED <<Backup, Privacy, Creation>>

InitCli ==
    /\ InitWith({<<>>})
    /\ dirs = {}
    /\ dry_run
    /\ head = [p \in Paths |-> "none"]
    /\ PrivacyIdle
    /\ command \in Words
    /\ topic \in (IF command = "help" THEN Topics ELSE {""})
    /\ cli_pc = "start"
    /\ handler = "none"
    /\ shown = "none"
    /\ cli_exit = 0
    /\ IF command = "create"
       THEN /\ remote \in [Names -> Visibilities]
            /\ repo_name \in Names
            /\ create_private \in BOOLEAN
       ELSE /\ remote = [n \in Names |-> "none"]
            /\ repo_name = NameSeq[1]
            /\ create_private = FALSE
    /\ remoteAtCall = remote
    /\ cpc = "idle"
    /\ create_call = 0
    /\ lookup = "none"
    /\ creates = <<>>
    /\ returned = "none"
    /\ prev_returned = "none"

NextCli ==
    \/ run_cli
    \/ HandlerEnds
    \/ run_create_command
    \/ GetRepo
    \/ CreateRepo
    \/ CreateCommandEnds

SpecCli == InitCli /\ [][NextCli]_vars

\* C23: token gate of the unified command line. When GITHUB_TOKEN is not set
\* and the command is list, privacy, backup or create, run ends with exit
\* status 1 and no command handler is started (nor the creation it would
\* call); when the command is help, or there is no command, run shows the
\* help or the welcome and ends with status 0, with or without a token.
C23_TokenGate ==
    /\ envToken = NoToken => handler = "none" /\ cpc = "idle"
    /\ envToken = NoToken /\ command \in HandlerCommands /\ cli_pc # "start" =>
            cli_pc = "exited" /\ cli_exit = 1 /\ shown = "token_not_set"
    /\ command \in {"", "help"} /\ cli_pc # "start" =>
            /\ cli_pc = "exited"
            /\ cli_exit = 0
            /\ handler = "none"
            /\ shown = (IF command = "help" /\ topic # "" THEN "command_help" ELSE "welcome")

\* Without a token the backup command has ended with status 1, no handler started.
C23_Witness ==
    /\ envToken = NoToken
    /\ command = "backup"
    /\ cli_pc = "exited"
    /\ cli_exit = 1
    /\ handler = "none"

\* Without a token help on a topic was shown.
C23_WitnessHelp ==
    /\ envToken = NoToken
    /\ command = "help"
    /\ topic = "backup"
    /\ cli_pc = "exited"
    /\ shown = "command_help"

=============================================================================
